---------------------------- MODULE Spec2Model ----------------------------
(***************************************************************************)
(* Temporal analysis pipeline of the fitness advisor: per-frame exercise   *)
(* classification, segmentation of a pose sequence, the repetition         *)
(* counter and the fatigue estimator (src/batch_analyzer.py), with the     *)
(* detailed and the real-time classifiers (src/ml_analyzer.py,             *)
(* src/realtime_analyzer.py).                                              *)
(*                                                                         *)
(* Coordinates are normalised floats in the source.  The model keeps them  *)
(* as integers in hundredths (0.15 is 15).  A mean of two coordinates      *)
(* (a + b) / 2 is kept doubled, as a + b, and the threshold it is compared *)
(* with is doubled too, so no comparison loses a half.                     *)
(*                                                                         *)
(* A frame is a record [present, lm]: present = FALSE is Python's None     *)
(* (no pose detected), lm is the landmark dictionary, a function from the  *)
(* names that are present to <<x, y>>.                                     *)
(***************************************************************************)
EXTENDS Integers, Sequences, FiniteSets, TLC

VARIABLES
    pc,            \* position of the run: which function is to be applied next
    landmarks,     \* the frame handed to the classifiers
    labels,        \* what each classifier returned for landmarks
    poses,         \* the pose sequence handed to the function under analysis
    timestamps,    \* the timestamps of poses (segmentation)
    segments,      \* result of segment_workout_into_exercises
    exercise_type, \* the label handed to the rep counter / fatigue estimator
    i,             \* rep counter: number of frames of poses already scanned
    rep_count,     \* rep counter: repetitions counted so far
    in_rep,        \* rep counter: TRUE in state active, FALSE in state rest
    fatigue,       \* result of detect_fatigue_indicators
    total_duration, \* session: duration of the video, in hundredths of a second
    report,        \* session: what analyze_workout_session returned
    stdout,        \* session: what the batch analyzer process printed
    returncode,    \* session: exit status of the batch analyzer process
    response,      \* session: what the /analyze/batch endpoint answered
    workers        \* per-segment analyses in progress, one per retained segment

\* The variables of the session runs.
sess == <<total_duration, report, stdout, returncode, response, workers>>

vars == <<pc, landmarks, labels, poses, timestamps, segments, exercise_type,
          i, rep_count, in_rep, fatigue, sess>>

-----------------------------------------------------------------------------
(* Frames *)

Abs(n) == IF n < 0 THEN -n ELSE n

\* The six landmarks every classifier reads first.
required_points ==
    {"left_shoulder", "right_shoulder", "left_hip", "right_hip",
     "left_knee", "right_knee"}

EmptyLm == [n \in {} |-> <<0, 0>>]

\* Python None: no pose detected in the frame.
NoPose == [present |-> FALSE, lm |-> EmptyLm]

\* `not pose`: None or an empty dictionary.
Falsy(pose) == (~pose.present) \/ (DOMAIN pose.lm = {})

Has(pose, name) == name \in DOMAIN pose.lm
X(pose, name) == pose.lm[name][1]
Y(pose, name) == pose.lm[name][2]

\* A present frame: shoulders, hips and knees at the given heights, optional
\* wrists (-1 = not in the dictionary), the landmarks of drop removed.
Frame(ls, rs, hip, knee, lw, rw, drop) ==
    LET all == [n \in required_points \cup {"left_wrist", "right_wrist", "nose"} |->
                  CASE n = "left_shoulder" -> <<40, ls>>
                    [] n = "right_shoulder" -> <<60, rs>>
                    [] n = "left_hip" -> <<45, hip>>
                    [] n = "right_hip" -> <<55, hip>>
                    [] n = "left_knee" -> <<45, knee>>
                    [] n = "right_knee" -> <<55, knee>>
                    [] n = "left_wrist" -> <<35, lw>>
                    [] n = "right_wrist" -> <<65, rw>>
                    [] OTHER -> <<50, 10>>]
        keep == (DOMAIN all \ drop)
                  \ ((IF lw < 0 THEN {"left_wrist"} ELSE {})
                      \cup (IF rw < 0 THEN {"right_wrist"} ELSE {}))
    IN [present |-> TRUE, lm |-> [n \in keep |-> all[n]]]

-----------------------------------------------------------------------------
(* Exercise classifiers *)

\* Python's None as a returned label (a function that falls off its end) and
\* an exception that leaves the function.
None == "None"
TypeError == "TypeError"

ExerciseLabels ==
    {"squat", "pushup", "plank", "standing", "general_exercise", "unknown"}

\* batch_analyzer.classify_exercise_from_pose.  The six subscripts come
\* first: a missing one raises KeyError, caught as 'unknown'.  The pushup
\* branch returns only when the wrist is level with the shoulders; otherwise
\* control leaves the if/elif chain and the function returns None.
classify_exercise_from_pose(lmk) ==
    IF Falsy(lmk) THEN "unknown"
    ELSE IF ~(required_points \subseteq DOMAIN lmk.lm) THEN "unknown"
    ELSE LET shoulder_y2 == Y(lmk, "left_shoulder") + Y(lmk, "right_shoulder")
             hip_y2 == Y(lmk, "left_hip") + Y(lmk, "right_hip")
             knee_y2 == Y(lmk, "left_knee") + Y(lmk, "right_knee")
         IN IF hip_y2 > shoulder_y2 + 30 /\ knee_y2 > hip_y2 - 20 THEN "squat"
            ELSE IF Abs(shoulder_y2 - hip_y2) < 40 /\ Has(lmk, "left_wrist")
              THEN IF Abs(2 * Y(lmk, "left_wrist") - shoulder_y2) < 30
                     THEN "pushup"
                     ELSE None
            ELSE IF Abs(shoulder_y2 - hip_y2) < 30 THEN "plank"
            ELSE "standing"

\* ml_analyzer.MotionAnalyzer._detect_exercise_type.  `point in keypoints`
\* on None raises TypeError, caught by `except Exception` as 'unknown'.
detect_exercise_type(keypoints) ==
    IF ~keypoints.present THEN "unknown"
    ELSE IF ~(required_points \subseteq DOMAIN keypoints.lm) THEN "unknown"
    ELSE LET shoulder_y2 == Y(keypoints, "left_shoulder") + Y(keypoints, "right_shoulder")
             hip_y2 == Y(keypoints, "left_hip") + Y(keypoints, "right_hip")
             knee_y2 == Y(keypoints, "left_knee") + Y(keypoints, "right_knee")
             wrists == Has(keypoints, "left_wrist") /\ Has(keypoints, "right_wrist")
             wrist_y2 == Y(keypoints, "left_wrist") + Y(keypoints, "right_wrist")
         IN IF /\ hip_y2 > shoulder_y2 + 20
               /\ knee_y2 > hip_y2 - 10
               /\ wrists
               /\ wrist_y2 < hip_y2
              THEN "squat"
            ELSE IF /\ wrists
                    /\ Abs(wrist_y2 - shoulder_y2) < 30
                    /\ Abs(shoulder_y2 - hip_y2) < 40
              THEN "pushup"
            ELSE IF Abs(shoulder_y2 - hip_y2) < 30 /\ Abs(hip_y2 - knee_y2) < 30
              THEN "plank"
            ELSE "general_exercise"

\* realtime_analyzer.quick_exercise_detection.  Only KeyError is caught: the
\* subscript of None raises TypeError, which leaves the function.  The four
\* means are computed first, so missing wrists are a KeyError too.
quick_exercise_detection(lmk) ==
    IF ~lmk.present THEN TypeError
    ELSE IF ~((required_points \cup {"left_wrist", "right_wrist"}) \subseteq DOMAIN lmk.lm)
      THEN "unknown"
    ELSE LET shoulder_y2 == Y(lmk, "left_shoulder") + Y(lmk, "right_shoulder")
             hip_y2 == Y(lmk, "left_hip") + Y(lmk, "right_hip")
             knee_y2 == Y(lmk, "left_knee") + Y(lmk, "right_knee")
             wrist_y2 == Y(lmk, "left_wrist") + Y(lmk, "right_wrist")
         IN IF hip_y2 > shoulder_y2 + 24 /\ knee_y2 > hip_y2 - 16 THEN "squat"
            ELSE IF Abs(shoulder_y2 - hip_y2) < 36
              THEN IF Abs(wrist_y2 - shoulder_y2) < 30 THEN "pushup" ELSE "plank"
            ELSE "standing"

-----------------------------------------------------------------------------
(* Segment builder *)

\* `len(segment_poses) > 5`: a run is kept when it has more than 5 frames.
MinSegmentFrames == 5

\* Python truth value of a label: None is false, every label string is true
\* ('unknown' included).
Truthy(label) == label # None

\* State of the scan before its first frame.
ScanInit ==
    [segments |-> <<>>, current_exercise |-> None, segment_start |-> 0,
     segment_poses |-> <<>>]

\* The segment appended when a label change closes the run, at Python index
\* idx.  Python index k of a list is element k + 1 of the sequence.
\* segment_start is not a key of the source's dictionary: it records the
\* index of the first frame of the run, which the source holds in the local
\* of the same name.
ClosedSegmentAtChange(st, idx, ts) ==
    [exercise |-> st.current_exercise,
     start_time |-> ts[st.segment_start + 1],
     end_time |-> ts[idx + 1],
     duration |-> ts[idx + 1] - ts[st.segment_start + 1],
     poses |-> st.segment_poses,
     frame_count |-> Len(st.segment_poses),
     segment_start |-> st.segment_start]

ClosedSegment(st, idx, ts) ==
    [exercise |-> st.current_exercise,
     start_time |-> ts[st.segment_start + 1],
     end_time |-> IF idx > 0 THEN ts[idx] ELSE ts[st.segment_start + 1],
     duration |-> IF idx > 0 THEN ts[idx] - ts[st.segment_start + 1] ELSE 0,
     poses |-> st.segment_poses,
     frame_count |-> Len(st.segment_poses),
     segment_start |-> st.segment_start]

\* Variant that measures the final segment from the start of the sequence.
FinalSegmentFromStart(st, ts) ==
    [exercise |-> st.current_exercise,
     start_time |-> ts[1],
     end_time |-> ts[Len(ts)],
     duration |-> ts[Len(ts)] - ts[1],
     poses |-> st.segment_poses,
     frame_count |-> Len(st.segment_poses),
     segment_start |-> st.segment_start]

\* The segment appended after the loop: its end is timestamps[-1].
FinalSegment(st, ts) ==
    [exercise |-> st.current_exercise,
     start_time |-> ts[st.segment_start + 1],
     end_time |-> ts[Len(ts)],
     duration |-> ts[Len(ts)] - ts[st.segment_start + 1],
     poses |-> st.segment_poses,
     frame_count |-> Len(st.segment_poses),
     segment_start |-> st.segment_start]

\* Variants of the guard: one that also refuses 'unknown', one that keeps a
\* run of exactly 5 frames.
KeepRunKnownOnly(st) ==
    /\ st.current_exercise \notin {None, "unknown"}
    /\ Len(st.segment_poses) > MinSegmentFrames

KeepRunFromFive(st) ==
    Truthy(st.current_exercise) /\ Len(st.segment_poses) >= MinSegmentFrames

\* The guard of both appends.
KeepRun(st) ==
    Truthy(st.current_exercise) /\ Len(st.segment_poses) > MinSegmentFrames

\* Variant of the loop body that forgets to move segment_start.
ScanStepStaleStart(st, idx, ps, ts) ==
    LET pose == ps[idx + 1]
        exercise == classify_exercise_from_pose(pose)
    IN IF exercise # st.current_exercise
         THEN [segments |-> IF Truthy(st.current_exercise)
                                 /\ Len(st.segment_poses) > MinSegmentFrames
                              THEN Append(st.segments, ClosedSegment(st, idx, ts))
                              ELSE st.segments,
               current_exercise |-> exercise,
               segment_start |-> st.segment_start,
               segment_poses |-> <<pose>>]
         ELSE [st EXCEPT !.segment_poses = Append(@, pose)]

\* Variant of the loop body that starts the new run after the frame that
\* changed the label.
ScanStepSkipsFirst(st, idx, ps, ts) ==
    LET pose == ps[idx + 1]
        exercise == classify_exercise_from_pose(pose)
    IN IF exercise # st.current_exercise
         THEN [segments |-> IF KeepRun(st)
                              THEN Append(st.segments, ClosedSegment(st, idx, ts))
                              ELSE st.segments,
               current_exercise |-> exercise,
               segment_start |-> idx + 1,
               segment_poses |-> <<>>]
         ELSE [st EXCEPT !.segment_poses = Append(@, pose)]

\* One iteration of `for i, pose in enumerate(poses)`, at Python index idx.
ScanStep(st, idx, ps, ts) ==
    LET pose == ps[idx + 1]
        exercise == classify_exercise_from_pose(pose)
    IN IF exercise # st.current_exercise
         THEN [segments |-> IF KeepRun(st)
                              THEN Append(st.segments, ClosedSegment(st, idx, ts))
                              ELSE st.segments,
               current_exercise |-> exercise,
               segment_start |-> idx,
               segment_poses |-> <<pose>>]
         ELSE [st EXCEPT !.segment_poses = Append(@, pose)]

RECURSIVE Scan(_, _, _, _)
Scan(st, idx, ps, ts) ==
    IF idx >= Len(ps) THEN st ELSE Scan(ScanStep(st, idx, ps, ts), idx + 1, ps, ts)

\* batch_analyzer.segment_workout_into_exercises.
segment_workout_into_exercises(ps, ts) ==
    LET st == Scan(ScanInit, 0, ps, ts)
    IN IF KeepRun(st) THEN Append(st.segments, FinalSegment(st, ts)) ELSE st.segments

-----------------------------------------------------------------------------
(* Rep counter *)

\* Landmarks each detector subscripts; a missing one raises KeyError, and
\* the frame is skipped by `continue`.
DetectorPoints(type) ==
    CASE type = "squat" -> {"left_hip", "right_hip", "left_knee", "right_knee"}
      [] type = "pushup" -> {"left_shoulder", "left_wrist"}
      [] OTHER -> {}

\* Variant of the loop body that counts the rep when the active state is
\* entered.
RepStepCountOnEntry(st, pose, type) ==
    IF Falsy(pose) \/ ~(DetectorPoints(type) \subseteq DOMAIN pose.lm) THEN st
    ELSE LET enter == IF type = "squat"
                        THEN Y(pose, "left_hip") + Y(pose, "right_hip")
                               > Y(pose, "left_knee") + Y(pose, "right_knee") - 10
                        ELSE Abs(Y(pose, "left_shoulder") - Y(pose, "left_wrist")) < 10
             leave == IF type = "squat"
                        THEN Y(pose, "left_hip") + Y(pose, "right_hip")
                               < Y(pose, "left_knee") + Y(pose, "right_knee") - 30
                        ELSE Abs(Y(pose, "left_shoulder") - Y(pose, "left_wrist")) > 20
         IN IF type \notin {"squat", "pushup"} THEN st
            ELSE IF enter /\ ~st.in_rep
              THEN [rep_count |-> st.rep_count + 1, in_rep |-> TRUE]
            ELSE IF leave /\ st.in_rep
              THEN [rep_count |-> st.rep_count, in_rep |-> FALSE]
            ELSE st

\* Variant that counts every leaving frame, in state active or not.
RepStepNoGuard(st, pose, type) ==
    IF Falsy(pose) \/ ~(DetectorPoints(type) \subseteq DOMAIN pose.lm) THEN st
    ELSE LET enter == IF type = "squat"
                        THEN Y(pose, "left_hip") + Y(pose, "right_hip")
                               > Y(pose, "left_knee") + Y(pose, "right_knee") - 10
                        ELSE Abs(Y(pose, "left_shoulder") - Y(pose, "left_wrist")) < 10
             leave == IF type = "squat"
                        THEN Y(pose, "left_hip") + Y(pose, "right_hip")
                               < Y(pose, "left_knee") + Y(pose, "right_knee") - 30
                        ELSE Abs(Y(pose, "left_shoulder") - Y(pose, "left_wrist")) > 20
         IN IF type \notin {"squat", "pushup"} THEN st
            ELSE IF enter /\ ~st.in_rep
              THEN [rep_count |-> st.rep_count, in_rep |-> TRUE]
            ELSE IF leave
              THEN [rep_count |-> st.rep_count + 1, in_rep |-> FALSE]
            ELSE st

\* Variant that counts the rep and stays in state active.
RepStepNoReset(st, pose, type) ==
    IF Falsy(pose) \/ ~(DetectorPoints(type) \subseteq DOMAIN pose.lm) THEN st
    ELSE LET enter == IF type = "squat"
                        THEN Y(pose, "left_hip") + Y(pose, "right_hip")
                               > Y(pose, "left_knee") + Y(pose, "right_knee") - 10
                        ELSE Abs(Y(pose, "left_shoulder") - Y(pose, "left_wrist")) < 10
             leave == IF type = "squat"
                        THEN Y(pose, "left_hip") + Y(pose, "right_hip")
                               < Y(pose, "left_knee") + Y(pose, "right_knee") - 30
                        ELSE Abs(Y(pose, "left_shoulder") - Y(pose, "left_wrist")) > 20
         IN IF type \notin {"squat", "pushup"} THEN st
            ELSE IF enter /\ ~st.in_rep
              THEN [rep_count |-> st.rep_count, in_rep |-> TRUE]
            ELSE IF leave /\ st.in_rep
              THEN [rep_count |-> st.rep_count + 1, in_rep |-> TRUE]
            ELSE st

\* Variant in which an absent frame ends the active state.
RepStepResetOnGap(st, pose, type) ==
    IF Falsy(pose) THEN [st EXCEPT !.in_rep = FALSE]
    ELSE IF type = "squat"
      THEN IF ~(DetectorPoints("squat") \subseteq DOMAIN pose.lm) THEN st
           ELSE LET hip_y2 == Y(pose, "left_hip") + Y(pose, "right_hip")
                    knee_y2 == Y(pose, "left_knee") + Y(pose, "right_knee")
                IN IF hip_y2 > knee_y2 - 10 /\ ~st.in_rep
                     THEN [st EXCEPT !.in_rep = TRUE]
                   ELSE IF hip_y2 < knee_y2 - 30 /\ st.in_rep
                     THEN [rep_count |-> st.rep_count + 1, in_rep |-> FALSE]
                   ELSE st
    ELSE IF type = "pushup"
      THEN IF ~(DetectorPoints("pushup") \subseteq DOMAIN pose.lm) THEN st
           ELSE LET shoulder_y == Y(pose, "left_shoulder")
                    wrist_y == Y(pose, "left_wrist")
                IN IF Abs(shoulder_y - wrist_y) < 10 /\ ~st.in_rep
                     THEN [st EXCEPT !.in_rep = TRUE]
                   ELSE IF Abs(shoulder_y - wrist_y) > 20 /\ st.in_rep
                     THEN [rep_count |-> st.rep_count + 1, in_rep |-> FALSE]
                   ELSE st
    ELSE st

\* Variant whose thresholds include the edges of the dead band.
RepStepClosedThresholds(st, pose, type) ==
    IF Falsy(pose) THEN st
    ELSE IF type = "squat"
      THEN IF ~(DetectorPoints("squat") \subseteq DOMAIN pose.lm) THEN st
           ELSE LET hip_y2 == Y(pose, "left_hip") + Y(pose, "right_hip")
                    knee_y2 == Y(pose, "left_knee") + Y(pose, "right_knee")
                IN IF hip_y2 >= knee_y2 - 10 /\ ~st.in_rep
                     THEN [st EXCEPT !.in_rep = TRUE]
                   ELSE IF hip_y2 < knee_y2 - 30 /\ st.in_rep
                     THEN [rep_count |-> st.rep_count + 1, in_rep |-> FALSE]
                   ELSE st
    ELSE IF type = "pushup"
      THEN IF ~(DetectorPoints("pushup") \subseteq DOMAIN pose.lm) THEN st
           ELSE LET shoulder_y == Y(pose, "left_shoulder")
                    wrist_y == Y(pose, "left_wrist")
                IN IF Abs(shoulder_y - wrist_y) < 10 /\ ~st.in_rep
                     THEN [st EXCEPT !.in_rep = TRUE]
                   ELSE IF Abs(shoulder_y - wrist_y) >= 20 /\ st.in_rep
                     THEN [rep_count |-> st.rep_count + 1, in_rep |-> FALSE]
                   ELSE st
    ELSE st

\* Variant whose pushup detector leaves the active state from 0.12 on.
RepStepEarlyLeave(st, pose, type) ==
    IF Falsy(pose) THEN st
    ELSE IF type = "squat"
      THEN IF ~(DetectorPoints("squat") \subseteq DOMAIN pose.lm) THEN st
           ELSE LET hip_y2 == Y(pose, "left_hip") + Y(pose, "right_hip")
                    knee_y2 == Y(pose, "left_knee") + Y(pose, "right_knee")
                IN IF hip_y2 > knee_y2 - 10 /\ ~st.in_rep
                     THEN [st EXCEPT !.in_rep = TRUE]
                   ELSE IF hip_y2 < knee_y2 - 30 /\ st.in_rep
                     THEN [rep_count |-> st.rep_count + 1, in_rep |-> FALSE]
                   ELSE st
    ELSE IF type = "pushup"
      THEN IF ~(DetectorPoints("pushup") \subseteq DOMAIN pose.lm) THEN st
           ELSE LET shoulder_y == Y(pose, "left_shoulder")
                    wrist_y == Y(pose, "left_wrist")
                IN IF Abs(shoulder_y - wrist_y) < 10 /\ ~st.in_rep
                     THEN [st EXCEPT !.in_rep = TRUE]
                   ELSE IF Abs(shoulder_y - wrist_y) > 12 /\ st.in_rep
                     THEN [rep_count |-> st.rep_count + 1, in_rep |-> FALSE]
                   ELSE st
    ELSE st

\* Variant that adds two to the count when the active state is left.
RepStepCountsTwice(st, pose, type) ==
    IF Falsy(pose) THEN st
    ELSE IF type = "squat"
      THEN IF ~(DetectorPoints("squat") \subseteq DOMAIN pose.lm) THEN st
           ELSE LET hip_y2 == Y(pose, "left_hip") + Y(pose, "right_hip")
                    knee_y2 == Y(pose, "left_knee") + Y(pose, "right_knee")
                IN IF hip_y2 > knee_y2 - 10 /\ ~st.in_rep
                     THEN [st EXCEPT !.in_rep = TRUE]
                   ELSE IF hip_y2 < knee_y2 - 30 /\ st.in_rep
                     THEN [rep_count |-> st.rep_count + 2, in_rep |-> FALSE]
                   ELSE st
    ELSE IF type = "pushup"
      THEN IF ~(DetectorPoints("pushup") \subseteq DOMAIN pose.lm) THEN st
           ELSE LET shoulder_y == Y(pose, "left_shoulder")
                    wrist_y == Y(pose, "left_wrist")
                IN IF Abs(shoulder_y - wrist_y) < 10 /\ ~st.in_rep
                     THEN [st EXCEPT !.in_rep = TRUE]
                   ELSE IF Abs(shoulder_y - wrist_y) > 20 /\ st.in_rep
                     THEN [rep_count |-> st.rep_count + 2, in_rep |-> FALSE]
                   ELSE st
    ELSE st

\* One iteration of `for pose in poses` of count_reps_in_sequence, on the
\* locals st = [rep_count, in_rep].  Squat compares the mean hip height with
\* the mean knee height (0.05 to enter, 0.15 to leave), pushup the distance
\* of the left shoulder from the left wrist (0.1 to enter, 0.2 to leave).
RepStep(st, pose, type) ==
    IF Falsy(pose) THEN st
    ELSE IF type = "squat"
      THEN IF ~(DetectorPoints("squat") \subseteq DOMAIN pose.lm) THEN st
           ELSE LET hip_y2 == Y(pose, "left_hip") + Y(pose, "right_hip")
                    knee_y2 == Y(pose, "left_knee") + Y(pose, "right_knee")
                IN IF hip_y2 > knee_y2 - 10 /\ ~st.in_rep
                     THEN [st EXCEPT !.in_rep = TRUE]
                   ELSE IF hip_y2 < knee_y2 - 30 /\ st.in_rep
                     THEN [rep_count |-> st.rep_count + 1, in_rep |-> FALSE]
                   ELSE st
    ELSE IF type = "pushup"
      THEN IF ~(DetectorPoints("pushup") \subseteq DOMAIN pose.lm) THEN st
           ELSE LET shoulder_y == Y(pose, "left_shoulder")
                    wrist_y == Y(pose, "left_wrist")
                IN IF Abs(shoulder_y - wrist_y) < 10 /\ ~st.in_rep
                     THEN [st EXCEPT !.in_rep = TRUE]
                   ELSE IF Abs(shoulder_y - wrist_y) > 20 /\ st.in_rep
                     THEN [rep_count |-> st.rep_count + 1, in_rep |-> FALSE]
                   ELSE st
    ELSE st

\* `if exercise_type == 'unknown' or not poses: return 0`
RepEarlyExit(ps, type) == type = "unknown" \/ Len(ps) = 0

RECURSIVE RepScan(_, _, _, _)
RepScan(st, k, ps, type) ==
    IF k >= Len(ps) THEN st ELSE RepScan(RepStep(st, ps[k + 1], type), k + 1, ps, type)

\* batch_analyzer.count_reps_in_sequence, as a function of its arguments.
count_reps_in_sequence(ps, type) ==
    IF RepEarlyExit(ps, type) THEN 0
    ELSE RepScan([rep_count |-> 0, in_rep |-> FALSE], 0, ps, type).rep_count

-----------------------------------------------------------------------------
(* Form consistency and fatigue estimator *)

\* A mean of hundredths is kept as the fraction num / den (den > 0), so that
\* no comparison rounds.  0.0 is 0 / 1.
Ratio(n, d) == [num |-> n, den |-> d]

\* a < b - m, for fractions a and b and a margin m in hundredths.
LessByMargin(a, b, m) == a.num * b.den < (b.num - m * b.den) * a.den

\* np.sqrt of a squared distance; the frames of the model keep every
\* distance a whole number of hundredths.
Sqrt(n) == CHOOSE r \in 0..n : r * r = n

RECURSIVE SumOver(_, _)
SumOver(S, f) ==
    IF S = {} THEN 0
    ELSE LET k == CHOOSE x \in S : TRUE IN f[k] + SumOver(S \ {k}, f)

shoulder_width(pose) == Abs(X(pose, "left_shoulder") - X(pose, "right_shoulder"))

\* batch_analyzer.calculate_form_consistency: mean over the pairs of
\* consecutive frames that are both present and both carry the shoulders of
\* max(0, 1 - |change of shoulder width|); 0.0 without such a pair.
calculate_form_consistency(ps, type) ==
    IF Len(ps) = 0 \/ type = "unknown" THEN Ratio(0, 1)
    ELSE LET pairs == {k \in 2..Len(ps) :
                         /\ ~Falsy(ps[k]) /\ ~Falsy(ps[k - 1])
                         /\ {"left_shoulder", "right_shoulder"} \subseteq DOMAIN ps[k].lm
                         /\ {"left_shoulder", "right_shoulder"} \subseteq DOMAIN ps[k - 1].lm}
             consistencies ==
               [k \in pairs |->
                  LET consistency ==
                        100 - Abs(shoulder_width(ps[k]) - shoulder_width(ps[k - 1]))
                  IN IF consistency < 0 THEN 0 ELSE consistency]
         IN IF pairs = {} THEN Ratio(0, 1)
            ELSE Ratio(SumOver(pairs, consistencies), Cardinality(pairs))

\* batch_analyzer.calculate_pose_stability: max(0, 1 - 10 * mean movement of
\* the nose between consecutive present frames that both carry it).
calculate_pose_stability(ps) ==
    IF Len(ps) < 2 THEN Ratio(100, 1)
    ELSE LET pairs == {k \in 2..Len(ps) :
                         /\ ~Falsy(ps[k]) /\ ~Falsy(ps[k - 1])
                         /\ Has(ps[k], "nose") /\ Has(ps[k - 1], "nose")}
             movements ==
               [k \in pairs |->
                  Sqrt((X(ps[k], "nose") - X(ps[k - 1], "nose"))
                         * (X(ps[k], "nose") - X(ps[k - 1], "nose"))
                       + (Y(ps[k], "nose") - Y(ps[k - 1], "nose"))
                           * (Y(ps[k], "nose") - Y(ps[k - 1], "nose")))]
             total == SumOver(pairs, movements)
             count == IF pairs = {} THEN 1 ELSE Cardinality(pairs)
         IN IF 100 * count - 10 * total < 0 THEN Ratio(0, count)
            ELSE Ratio(100 * count - 10 * total, count)

\* `len(poses) < 10`: below it the estimator returns the short result.
MinFatigueFrames == 10

\* `len(late_poses) > 5`: above it the stability of the windows is compared.
MinStabilityFrames == 5

\* poses[:len(poses)//3]
early_poses(ps) == SubSeq(ps, 1, Len(ps) \div 3)
\* poses[-len(poses)//3:]: the unary minus binds first, so the start index
\* is floor(-len / 3), counted from the end of the list.
late_poses(ps) == SubSeq(ps, Len(ps) + ((-Len(ps)) \div 3) + 1, Len(ps))

\* Variant of the score in which instability is subtracted.
FatigueScoreSigned(degraded, unstable) ==
    (IF degraded THEN 30 ELSE 0) - (IF unstable THEN 20 ELSE 0)

\* fatigue_score: 0.3 for form degradation plus 0.2 for instability, then
\* min(fatigue_score, 1.0).
FatigueScore(degraded, unstable) ==
    LET fatigue_score == (IF degraded THEN 30 ELSE 0) + (IF unstable THEN 20 ELSE 0)
    IN IF fatigue_score < 100 THEN fatigue_score ELSE 100

\* Variant that compares the stability of the windows whatever their length.
detect_fatigue_indicators_any_window(ps, type) ==
    IF Len(ps) < MinFatigueFrames
      THEN [fatigue_score |-> 0, indicators |-> <<>>]
    ELSE LET early_consistency == calculate_form_consistency(early_poses(ps), type)
             late_consistency == calculate_form_consistency(late_poses(ps), type)
             degraded == LessByMargin(late_consistency, early_consistency, 15)
             unstable ==
               /\ LessByMargin(calculate_pose_stability(late_poses(ps)),
                               calculate_pose_stability(early_poses(ps)), 10)
         IN [fatigue_score |-> FatigueScore(degraded, unstable),
             indicators |->
               (IF degraded THEN <<"Form degradation detected">> ELSE <<>>)
                 \o (IF unstable THEN <<"Increased movement instability">> ELSE <<>>),
             early_consistency |-> early_consistency,
             late_consistency |-> late_consistency]

\* batch_analyzer.detect_fatigue_indicators.  The short result has two keys,
\* the full one four.
detect_fatigue_indicators(ps, type) ==
    IF Len(ps) < MinFatigueFrames
      THEN [fatigue_score |-> 0, indicators |-> <<>>]
    ELSE LET early_consistency == calculate_form_consistency(early_poses(ps), type)
             late_consistency == calculate_form_consistency(late_poses(ps), type)
             degraded == LessByMargin(late_consistency, early_consistency, 15)
             unstable ==
               /\ Len(late_poses(ps)) > MinStabilityFrames
               /\ LessByMargin(calculate_pose_stability(late_poses(ps)),
                               calculate_pose_stability(early_poses(ps)), 10)
         IN [fatigue_score |-> FatigueScore(degraded, unstable),
             indicators |->
               (IF degraded THEN <<"Form degradation detected">> ELSE <<>>)
                 \o (IF unstable THEN <<"Increased movement instability">> ELSE <<>>),
             early_consistency |-> early_consistency,
             late_consistency |-> late_consistency]

-----------------------------------------------------------------------------
(* Inputs of the segmentation runs *)

\* Bounds of the pose sequences: at most MaxRuns blocks of equal frames, each
\* of at most MaxRunLen frames.
MaxRuns == 3
MaxRunLen == 6
\* Spacing of the timestamps, in hundredths of a second per sampled frame,
\* when the video reports a frame rate.
FrameDt == 2

\* hips well below the shoulders, knees below the hips: 'squat'.
SquatFrame == Frame(20, 20, 50, 70, -1, -1, {})
\* torso level, left wrist far from the shoulders: no branch returns.
WristDownFrame == Frame(50, 50, 50, 50, 90, 90, {})

RunKinds == {NoPose, SquatFrame, WristDownFrame}

RunSeqs == UNION {[1..k -> RunKinds \X (1..MaxRunLen)] : k \in 0..MaxRuns}

RECURSIVE Repeat(_, _)
Repeat(x, n) == IF n = 0 THEN <<>> ELSE <<x>> \o Repeat(x, n - 1)

RECURSIVE Expand(_)
Expand(rs) ==
    IF Len(rs) = 0 THEN <<>>
    ELSE Repeat(rs[1][1], rs[1][2]) \o Expand(Tail(rs))

\* Variant with twice the spacing between the frames.
TimestampsStretched(n, dt) == [k \in 1..n |-> (k - 1) * dt * 2]

\* analyze_workout_session: timestamps[i] = i * (total_duration / len(frames));
\* total_duration is 0 when the container reports no frame rate.
Timestamps(n, dt) == [k \in 1..n |-> (k - 1) * dt]

-----------------------------------------------------------------------------
(* Specification of the segmentation: an input sequence, then the call *)

\* The session variables of a run that is not a session.
SessIdle ==
    /\ total_duration = 0
    /\ report = [error |-> "not run"]
    /\ stdout = <<>>
    /\ returncode = 0
    /\ response = [status |-> 0]
    /\ workers = <<>>

Idle ==
    /\ landmarks = NoPose
    /\ labels = [batch |-> None, detailed |-> None, realtime |-> None]
    /\ exercise_type = None
    /\ i = 0
    /\ rep_count = 0
    /\ in_rep = FALSE
    /\ fatigue = [fatigue_score |-> 0, indicators |-> <<>>]
    /\ SessIdle

Init ==
    /\ pc = "segment"
    /\ \E rs \in RunSeqs, dt \in {0, FrameDt} :
         /\ poses = Expand(rs)
         /\ timestamps = Timestamps(Len(Expand(rs)), dt)
    /\ segments = <<>>
    /\ Idle

Segment ==
    /\ pc = "segment"
    /\ segments' = segment_workout_into_exercises(poses, timestamps)
    /\ pc' = "done"
    /\ UNCHANGED <<landmarks, labels, poses, timestamps, exercise_type, i,
                   rep_count, in_rep, fatigue>>
    /\ UNCHANGED sess

Next == Segment

Spec == Init /\ [][Next]_vars

-----------------------------------------------------------------------------
(* Properties of the segment builder *)

\* Label of the k-th frame of the input (k from 1).
LabelAt(k) == classify_exercise_from_pose(poses[k])

\* Last frame of the run of equal labels that frame a belongs to.
RECURSIVE RunEnd(_)
RunEnd(a) ==
    IF a >= Len(poses) \/ LabelAt(a + 1) # LabelAt(a) THEN a ELSE RunEnd(a + 1)

\* The maximal runs of one label of the input, as pairs <<first, last>>.
MaximalRuns ==
    {<<a, RunEnd(a)>> :
       a \in {k \in 1..Len(poses) : k = 1 \/ LabelAt(k - 1) # LabelAt(k)}}

RunLen(r) == r[2] - r[1] + 1

\* Segment s is the run of frames a..b.
SegmentOfRun(s, a, b) ==
    /\ s.segment_start = a - 1
    /\ s.frame_count = b - a + 1
    /\ s.exercise = LabelAt(a)

Returned == {segments[k] : k \in 1..Len(segments)}

NonDecreasing(ts) == \A k \in 1..(Len(ts) - 1) : ts[k] <= ts[k + 1]

\* C2: with non-decreasing timestamps the returned segments are ordered by
\* start time, their frame index ranges are pairwise disjoint, and each
\* segment ends no later than the next one starts.
C2_OrderedDisjoint ==
    (pc = "done" /\ NonDecreasing(timestamps)) =>
      /\ \A j \in 1..Len(segments), k \in 1..Len(segments) :
           j < k =>
             /\ segments[j].segment_start + segments[j].frame_count
                  <= segments[k].segment_start
             /\ segments[j].start_time <= segments[k].start_time
      /\ \A j \in 1..(Len(segments) - 1) :
           segments[j].end_time <= segments[j + 1].start_time

\* Two segments were returned from a sequence whose timestamps advance.
C2_Witness ==
    /\ pc = "done"
    /\ Len(segments) >= 2
    /\ segments[1].end_time < segments[2].start_time
    /\ segments[1].start_time < segments[1].end_time

\* C3: every returned segment has at least 6 frames and frame_count equal to
\* the length of its poses; no maximal run of 5 or fewer frames is returned,
\* neither one closed by a label change nor the last run of the sequence.
C3_MinLength ==
    pc = "done" =>
      /\ \A s \in Returned :
           /\ s.frame_count >= MinSegmentFrames + 1
           /\ s.frame_count = Len(s.poses)
      /\ \A r \in MaximalRuns :
           RunLen(r) <= MinSegmentFrames =>
             ~ \E s \in Returned :
                 /\ s.segment_start + 1 <= r[2]
                 /\ r[1] <= s.segment_start + s.frame_count

\* A 5-frame labelled run closed by a label change, a segment, and a 5-frame
\* labelled run at the end of the sequence.
C3_Witness ==
    /\ pc = "done"
    /\ Len(segments) = 1
    /\ Len(poses) > 2 * MinSegmentFrames
    /\ <<1, MinSegmentFrames>> \in MaximalRuns
    /\ Truthy(LabelAt(1))
    /\ <<Len(poses) - MinSegmentFrames + 1, Len(poses)>> \in MaximalRuns
    /\ Truthy(LabelAt(Len(poses)))

-----------------------------------------------------------------------------
(* Specification of the rep counter: a pose sequence and a label, then the
   scan of count_reps_in_sequence, one frame per step *)

\* Bound of the length of the scanned sequences.
MaxRepFrames == 5

\* standing / top of the pushup: hips well above the knees, wrist far below
\* the shoulder.
UpFrame == Frame(20, 20, 50, 70, 50, 50, {})
\* deep squat / bottom of the pushup.
DownFrame == Frame(20, 20, 68, 70, 25, 25, {})
\* on the edge of the dead band of both detectors.
BandFrame == Frame(20, 20, 65, 70, 40, 40, {})
\* a pose without the left hip and the left wrist.
PartialFrame == Frame(20, 20, 68, 70, 25, 25, {"left_hip", "left_wrist"})

RepKinds == {UpFrame, DownFrame, BandFrame, PartialFrame, NoPose}

RepInputs == UNION {[1..n -> RepKinds] : n \in 0..MaxRepFrames}

InitReps ==
    /\ pc = "count"
    /\ poses \in RepInputs
    /\ exercise_type \in ExerciseLabels
    /\ timestamps = <<>>
    /\ segments = <<>>
    /\ landmarks = NoPose
    /\ labels = [batch |-> None, detailed |-> None, realtime |-> None]
    /\ i = 0
    /\ rep_count = 0
    /\ in_rep = FALSE
    /\ fatigue = [fatigue_score |-> 0, indicators |-> <<>>]
    /\ SessIdle

\* `if exercise_type == 'unknown' or not poses: return 0`
RepEarlyReturn ==
    /\ pc = "count"
    /\ RepEarlyExit(poses, exercise_type)
    /\ rep_count' = 0
    /\ pc' = "reps_done"
    /\ UNCHANGED <<landmarks, labels, poses, timestamps, segments,
                   exercise_type, i, in_rep, fatigue>>
    /\ UNCHANGED sess

\* rep_count = 0; in_rep = False
RepEnter ==
    /\ pc = "count"
    /\ ~RepEarlyExit(poses, exercise_type)
    /\ rep_count' = 0
    /\ in_rep' = FALSE
    /\ i' = 0
    /\ pc' = "scan"
    /\ UNCHANGED <<landmarks, labels, poses, timestamps, segments,
                   exercise_type, fatigue>>
    /\ UNCHANGED sess

\* one iteration of the loop over poses
RepFrame ==
    /\ pc = "scan"
    /\ i < Len(poses)
    /\ LET st == RepStep([rep_count |-> rep_count, in_rep |-> in_rep],
                         poses[i + 1], exercise_type)
       IN /\ rep_count' = st.rep_count
          /\ in_rep' = st.in_rep
    /\ i' = i + 1
    /\ UNCHANGED <<pc, landmarks, labels, poses, timestamps, segments,
                   exercise_type, fatigue>>
    /\ UNCHANGED sess

\* return rep_count
RepReturn ==
    /\ pc = "scan"
    /\ i = Len(poses)
    /\ pc' = "reps_done"
    /\ UNCHANGED <<landmarks, labels, poses, timestamps, segments,
                   exercise_type, i, rep_count, in_rep, fatigue>>
    /\ UNCHANGED sess

NextReps == RepEarlyReturn \/ RepEnter \/ RepFrame \/ RepReturn

SpecReps == InitReps /\ [][NextReps]_vars

-----------------------------------------------------------------------------
(* Properties of the rep counter *)

\* A frame the detector of the label can evaluate: present, with every
\* landmark the detector reads.
ValidFor(pose, type) ==
    (~Falsy(pose)) /\ DetectorPoints(type) \subseteq DOMAIN pose.lm

ValidCount(ps, type) == Cardinality({k \in 1..Len(ps) : ValidFor(ps[k], type)})

\* C4: count_reps_in_sequence returns a non-negative integer, and 0 whenever
\* the sequence has fewer than 2 frames the detector can evaluate.
C4_NonNegativeZeroBelowTwo ==
    pc = "reps_done" =>
      /\ rep_count \in Nat
      /\ (ValidCount(poses, exercise_type) < 2 => rep_count = 0)

\* A squat scan of several frames of which exactly one is valid, and that
\* one entered the active state.
C4_Witness ==
    /\ pc = "reps_done"
    /\ exercise_type = "squat"
    /\ Len(poses) >= 3
    /\ ValidCount(poses, exercise_type) = 1
    /\ in_rep
    /\ rep_count = 0

\* C5: the scan starts in state rest with count 0, every step of the scan
\* adds 1 to the count exactly when it goes from active to rest, and a scan
\* of identical frames returns 0 (a rep still active at the end of the
\* sequence is not counted).
C5_CountsActiveToRest ==
    /\ [](pc = "scan" /\ i = 0 => ~in_rep /\ rep_count = 0)
    /\ [][pc = "scan" =>
            \/ in_rep /\ ~in_rep' /\ rep_count' = rep_count + 1
            \/ ~(in_rep /\ ~in_rep') /\ rep_count' = rep_count]_vars
    /\ []((pc = "reps_done" /\ \A k \in 1..Len(poses) : poses[k] = poses[1])
            => rep_count = 0)

\* One rep was counted and a second one, entered later, is still active
\* when the sequence ends.
C5_Witness ==
    /\ pc = "reps_done"
    /\ exercise_type = "squat"
    /\ rep_count = 1
    /\ in_rep
    /\ poses[Len(poses)] = DownFrame

\* The frames the claim builds its sequences from.
SquatStanding(pose) ==
    /\ ValidFor(pose, "squat")
    /\ Y(pose, "left_hip") + Y(pose, "right_hip")
         < Y(pose, "left_knee") + Y(pose, "right_knee") - 30
SquatDeep(pose) ==
    /\ ValidFor(pose, "squat")
    /\ Y(pose, "left_hip") + Y(pose, "right_hip")
         > Y(pose, "left_knee") + Y(pose, "right_knee") - 10
PushupTop(pose) ==
    /\ ValidFor(pose, "pushup")
    /\ Abs(Y(pose, "left_shoulder") - Y(pose, "left_wrist")) > 20
PushupBottom(pose) ==
    /\ ValidFor(pose, "pushup")
    /\ Abs(Y(pose, "left_shoulder") - Y(pose, "left_wrist")) < 10

\* ps is some up frames followed by cycles of [down frames, up frames].
Cycles(ps, Up(_), Down(_)) ==
    /\ Len(ps) >= 1
    /\ \A k \in 1..Len(ps) : Up(ps[k]) \/ Down(ps[k])
    /\ Up(ps[1])
    /\ Up(ps[Len(ps)])

\* Its number of cycles: the places where a down frame is followed by an up
\* frame.
CycleCount(ps, Up(_), Down(_)) ==
    Cardinality({k \in 1..(Len(ps) - 1) : Down(ps[k]) /\ Up(ps[k + 1])})

\* C6: for squat, standing frames followed by k cycles of [deep frames,
\* standing frames] yield exactly k reps; the same for pushup with bottom and
\* top frames; 5 standing, 5 deep, 5 standing frames yield 1 squat rep.
C6_CyclesCounted ==
    /\ (pc = "reps_done" /\ exercise_type = "squat"
          /\ Cycles(poses, SquatStanding, SquatDeep))
         => rep_count = CycleCount(poses, SquatStanding, SquatDeep)
    /\ (pc = "reps_done" /\ exercise_type = "pushup"
          /\ Cycles(poses, PushupTop, PushupBottom))
         => rep_count = CycleCount(poses, PushupTop, PushupBottom)
    /\ count_reps_in_sequence(
         Repeat(UpFrame, 5) \o Repeat(DownFrame, 5) \o Repeat(UpFrame, 5),
         "squat") = 1

\* A squat scan of two full cycles.
C6_Witness ==
    /\ pc = "reps_done"
    /\ exercise_type = "squat"
    /\ Cycles(poses, SquatStanding, SquatDeep)
    /\ CycleCount(poses, SquatStanding, SquatDeep) = 2
    /\ rep_count = 2

-----------------------------------------------------------------------------
(* Specification of the fatigue estimator: a pose sequence and a label, then
   the call of detect_fatigue_indicators *)

\* Bound of the length of each of the three blocks an input is made of.
MaxBlockLen == 6

\* A full pose with the given shoulder width and nose position.
FatigueFrame(width, nose_x) ==
    [present |-> TRUE,
     lm |-> [n \in required_points \cup {"nose"} |->
               CASE n = "left_shoulder" -> <<10, 20>>
                 [] n = "right_shoulder" -> <<10 + width, 20>>
                 [] n = "left_hip" -> <<20, 50>>
                 [] n = "right_hip" -> <<30, 50>>
                 [] n = "left_knee" -> <<20, 70>>
                 [] n = "right_knee" -> <<30, 70>>
                 [] OTHER -> <<nose_x, 10>>]]

\* A block alternates between the two frames of its pattern: steady form,
\* oscillating shoulder width, oscillating nose, both, or no pose at all.
Patterns ==
    {<<FatigueFrame(20, 50), FatigueFrame(20, 50)>>,
     <<FatigueFrame(20, 50), FatigueFrame(60, 50)>>,
     <<FatigueFrame(20, 50), FatigueFrame(20, 53)>>,
     <<FatigueFrame(20, 50), FatigueFrame(60, 53)>>,
     <<NoPose, NoPose>>}

Block(p, n) == [k \in 1..n |-> IF k % 2 = 1 THEN p[1] ELSE p[2]]

Blocks == {<<>>} \cup {Block(p, n) : p \in Patterns, n \in 1..MaxBlockLen}

FatigueInputs == {b1 \o b2 \o b3 : b1 \in Blocks, b2 \in Blocks, b3 \in Blocks}

InitFatigue ==
    /\ pc = "fatigue"
    /\ poses \in FatigueInputs
    /\ exercise_type \in {"squat", "unknown"}
    /\ timestamps = <<>>
    /\ segments = <<>>
    /\ landmarks = NoPose
    /\ labels = [batch |-> None, detailed |-> None, realtime |-> None]
    /\ i = 0
    /\ rep_count = 0
    /\ in_rep = FALSE
    /\ fatigue = [fatigue_score |-> 0, indicators |-> <<>>]
    /\ SessIdle

Fatigue ==
    /\ pc = "fatigue"
    /\ fatigue' = detect_fatigue_indicators(poses, exercise_type)
    /\ pc' = "fatigue_done"
    /\ UNCHANGED <<landmarks, labels, poses, timestamps, segments,
                   exercise_type, i, rep_count, in_rep>>
    /\ UNCHANGED sess

NextFatigue == Fatigue

SpecFatigue == InitFatigue /\ [][NextFatigue]_vars

\* C7: the fatigue score returned by detect_fatigue_indicators lies in
\* [0.0, 1.0].
C7_ScoreInUnitInterval ==
    pc = "fatigue_done" => (0 <= fatigue.fatigue_score /\ fatigue.fatigue_score <= 100)

\* Both indicators triggered: the largest score the estimator gives.
C7_Witness ==
    /\ pc = "fatigue_done"
    /\ Len(fatigue.indicators) = 2
    /\ fatigue.fatigue_score = 50

\* Frames of the sequence in which a pose was detected.
PresentCount(ps) == Cardinality({k \in 1..Len(ps) : ~Falsy(ps[k])})

\* C8: a sequence with fewer than 10 valid (present) frames, whatever its
\* total length, gets fatigue score 0 and an empty indicator list.
C8_ZeroBelowTenValid ==
    (pc = "fatigue_done" /\ PresentCount(poses) < MinFatigueFrames) =>
      (fatigue.fatigue_score = 0 /\ fatigue.indicators = <<>>)

-----------------------------------------------------------------------------
(* Specification of the classifiers: a frame, then the three classifiers *)

ShoulderYs == {20, 50}
HipYs == {30, 50, 60, 66}
KneeYs == {50, 70, 90}
LeftWristYs == {-1, 25, 50, 90}
RightWristYs == {-1, 25, 90}
Drops == {{}, {"nose"}} \cup {{n} : n \in required_points}

\* No pose, the empty dictionary, and the poses over the heights above with
\* at most one landmark removed.
ClassifyFrames ==
    {NoPose, [present |-> TRUE, lm |-> EmptyLm]}
      \cup {Frame(ls, rs, hip, knee, lw, rw, drop) :
              ls \in ShoulderYs, rs \in ShoulderYs, hip \in HipYs, knee \in KneeYs,
              lw \in LeftWristYs, rw \in RightWristYs, drop \in Drops}

InitClassify ==
    /\ pc = "classify"
    /\ landmarks \in ClassifyFrames
    /\ labels = [batch |-> None, detailed |-> None, realtime |-> None]
    /\ poses = <<>>
    /\ timestamps = <<>>
    /\ segments = <<>>
    /\ exercise_type = None
    /\ i = 0
    /\ rep_count = 0
    /\ in_rep = FALSE
    /\ fatigue = [fatigue_score |-> 0, indicators |-> <<>>]
    /\ SessIdle

Classify ==
    /\ pc = "classify"
    /\ labels' = [batch |-> classify_exercise_from_pose(landmarks),
                  detailed |-> detect_exercise_type(landmarks),
                  realtime |-> quick_exercise_detection(landmarks)]
    /\ pc' = "classified"
    /\ UNCHANGED <<landmarks, poses, timestamps, segments, exercise_type, i,
                   rep_count, in_rep, fatigue>>
    /\ UNCHANGED sess

NextClassify == Classify

SpecClassify == InitClassify /\ [][NextClassify]_vars

\* The rules of the batch classifier (0.15 and 0.1 for squat, 0.2 and 0.15 for
\* pushup, 0.15 for plank) and of the detailed classifier (0.1 and 0.05 for
\* squat), on a pose that has the six required landmarks.
ShoulderY2(f) == Y(f, "left_shoulder") + Y(f, "right_shoulder")
HipY2(f) == Y(f, "left_hip") + Y(f, "right_hip")
KneeY2(f) == Y(f, "left_knee") + Y(f, "right_knee")

BatchSquatRule(f) == HipY2(f) > ShoulderY2(f) + 30 /\ KneeY2(f) > HipY2(f) - 20
BatchPushupRule(f) ==
    /\ Has(f, "left_wrist")
    /\ Abs(2 * Y(f, "left_wrist") - ShoulderY2(f)) < 30
    /\ Abs(ShoulderY2(f) - HipY2(f)) < 40
BatchPlankRule(f) == Abs(ShoulderY2(f) - HipY2(f)) < 30

DetailedSquatRule(f) ==
    /\ HipY2(f) > ShoulderY2(f) + 20 /\ KneeY2(f) > HipY2(f) - 10
    /\ Has(f, "left_wrist") /\ Has(f, "right_wrist")
    /\ Y(f, "left_wrist") + Y(f, "right_wrist") < HipY2(f)
DetailedPushupRule(f) ==
    /\ Has(f, "left_wrist") /\ Has(f, "right_wrist")
    /\ Abs(Y(f, "left_wrist") + Y(f, "right_wrist") - ShoulderY2(f)) < 30
    /\ Abs(ShoulderY2(f) - HipY2(f)) < 40
DetailedPlankRule(f) ==
    Abs(ShoulderY2(f) - HipY2(f)) < 30 /\ Abs(HipY2(f) - KneeY2(f)) < 30

HasRequired(f) == f.present /\ required_points \subseteq DOMAIN f.lm

\* C9: the batch and the detailed classifier return a label of the closed
\* set for every frame; a pose with the six required landmarks that matches
\* none of the squat, pushup and plank rules is 'standing' in the batch
\* classifier and 'general_exercise' in the detailed one.
C9_ClosedLabelSet ==
    pc = "classified" =>
      /\ labels.batch \in ExerciseLabels
      /\ labels.detailed \in ExerciseLabels
      /\ (HasRequired(landmarks)
            /\ ~BatchSquatRule(landmarks) /\ ~BatchPushupRule(landmarks)
            /\ ~BatchPlankRule(landmarks))
           => labels.batch = "standing"
      /\ (HasRequired(landmarks)
            /\ ~DetailedSquatRule(landmarks) /\ ~DetailedPushupRule(landmarks)
            /\ ~DetailedPlankRule(landmarks))
           => labels.detailed = "general_exercise"

\* C10: each of the three classifiers returns 'unknown' for an absent or
\* empty frame and for a frame without one of the six required landmarks,
\* and none of them raises.
C10_UnknownWhenMissing ==
    (pc = "classified" /\ ~HasRequired(landmarks)) =>
      /\ labels.batch = "unknown"
      /\ labels.detailed = "unknown"
      /\ labels.realtime = "unknown"

-----------------------------------------------------------------------------
(* batch_analyzer.analyze_workout_session: the session report *)

KeepForAnalysisAll(segment) == TRUE

\* "if segment['exercise'] == 'unknown': continue".
KeepForAnalysis(segment) == segment.exercise # "unknown"

\* One entry of segment_analysis.
SegmentAnalysis(segment) ==
    [exercise |-> segment.exercise,
     duration |-> segment.duration,
     start_time |-> segment.start_time,
     end_time |-> segment.end_time,
     reps_counted |-> count_reps_in_sequence(segment.poses, segment.exercise),
     fatigue_analysis |-> detect_fatigue_indicators(segment.poses, segment.exercise),
     frame_count |-> segment.frame_count]

\* The loop over the segments: acc is [segment_analysis, total_reps].
RECURSIVE AnalyzeSegments(_, _)
AnalyzeSegments(acc, segs) ==
    IF Len(segs) = 0 THEN acc
    ELSE IF ~KeepForAnalysis(Head(segs)) THEN AnalyzeSegments(acc, Tail(segs))
    ELSE LET a == SegmentAnalysis(Head(segs))
         IN AnalyzeSegments(
                [segment_analysis |-> Append(acc.segment_analysis, a),
                 total_reps |-> acc.total_reps + a.reps_counted],
                Tail(segs))

\* exercise_counts.get(exercise, 0)
Get(counts, key) == IF key \in DOMAIN counts.breakdown THEN counts.breakdown[key] ELSE 0

TallyOverwrite(counts, analysis) ==
    [keys |-> IF analysis.exercise \in DOMAIN counts.breakdown THEN counts.keys
              ELSE Append(counts.keys, analysis.exercise),
     breakdown |-> [l \in DOMAIN counts.breakdown \cup {analysis.exercise} |->
                      IF l = analysis.exercise THEN analysis.reps_counted
                      ELSE counts.breakdown[l]],
     total_exercise_time |-> counts.total_exercise_time + analysis.duration]

\* One turn of the summary loop: counts is the dict exercise_counts (its
\* keys in insertion order and its values) and total_exercise_time.
Tally(counts, analysis) ==
    [keys |-> IF analysis.exercise \in DOMAIN counts.breakdown THEN counts.keys
              ELSE Append(counts.keys, analysis.exercise),
     breakdown |-> [l \in DOMAIN counts.breakdown \cup {analysis.exercise} |->
                      IF l = analysis.exercise
                      THEN Get(counts, l) + analysis.reps_counted
                      ELSE counts.breakdown[l]],
     total_exercise_time |-> counts.total_exercise_time + analysis.duration]

RECURSIVE Summarize(_, _)
Summarize(counts, analyses) ==
    IF Len(analyses) = 0 THEN counts
    ELSE Summarize(Tally(counts, Head(analyses)), Tail(analyses))

\* "if len(valid_poses) < 10".
MinValidPoses == 10

\* Variant that counts the absent frames too.
AllPoses(ps) == ps

\* valid_poses = [p for p in poses if p is not None]
valid_poses(ps) == SelectSeq(ps, LAMBDA p : p # NoPose)

\* The return value of analyze_workout_session on the poses detected in the
\* extracted frames and the duration of the video.
analyze_workout_session(ps, duration) ==
    IF Len(ps) = 0 THEN [error |-> "No frames extracted from video"]
    ELSE IF Len(valid_poses(ps)) < MinValidPoses
    THEN [error |-> "Insufficient pose data for analysis"]
    ELSE LET segs == segment_workout_into_exercises(
                         ps, Timestamps(Len(ps), duration \div Len(ps)))
             done == AnalyzeSegments([segment_analysis |-> <<>>, total_reps |-> 0], segs)
             sums == Summarize([keys |-> <<>>, breakdown |-> <<>>,
                                total_exercise_time |-> 0],
                               done.segment_analysis)
         IN [session_summary |->
                [total_duration |-> duration,
                 total_exercise_time |-> sums.total_exercise_time,
                 rest_time |-> duration - sums.total_exercise_time,
                 total_reps |-> done.total_reps,
                 exercises_performed |-> sums.keys,
                 exercise_breakdown |-> sums.breakdown],
             detailed_analysis |-> done.segment_analysis,
             \* total_frames, the frame count the container reports, is left out
             video_stats |->
                [analyzed_frames |-> Len(ps),
                 pose_detection_rate |-> Ratio(Len(valid_poses(ps)), Len(ps))]]

\* The lines analyze_workout_session prints before it returns.
ProgressLines(ps) ==
    <<[kind |-> "line", text |-> "Analyzing workout session"],
      [kind |-> "line", text |-> "Extracted frames"]>>
    \o (IF Len(ps) = 0 THEN <<>>
        ELSE <<[kind |-> "line", text |-> "Detected poses"]>>
             \o (IF Len(valid_poses(ps)) < MinValidPoses THEN <<>>
                 ELSE <<[kind |-> "line", text |-> "Segmented"]>>))

\* print(json.dumps(result, indent=2))
JsonDump(value) == [kind |-> "json", value |-> value]

\* main: result['processing_time'] = processing_time
WithProcessingTime(result, t) ==
    [k \in DOMAIN result \cup {"processing_time"} |->
       IF k = "processing_time" THEN t ELSE result[k]]

-----------------------------------------------------------------------------
(* ml_service.analyze_batch: the HTTP adapter around the batch analyzer *)

\* json.loads(result.stdout): the whole captured output has to be one JSON
\* document.
json_loads(out) ==
    IF Len(out) = 1 /\ out[1].kind = "json"
    THEN [value |-> out[1].value]
    ELSE [raised |-> "JSONDecodeError"]

\* The answer of the endpoint once the subprocess has exited.
analyze_batch(code, out) ==
    IF code # 0
    THEN [status |-> 200, success |-> FALSE, result |-> <<>>,
          error |-> "Batch analysis failed"]
    ELSE LET analysis_result == json_loads(out)
         IN IF "raised" \in DOMAIN analysis_result
            THEN [status |-> 500, detail |-> "Invalid analysis output"]
            ELSE [status |-> 200, success |-> TRUE,
                  result |-> analysis_result.value]

-----------------------------------------------------------------------------
(* Specification of a session: the frames of a video, the batch analyzer *)
(* run as a subprocess, the answer of the endpoint                        *)

MaxSessionBlockLen == 7

\* torso level, wrists at the shoulders: 'pushup'.
PushupFrame == Frame(50, 50, 50, 50, 55, 55, {})

SessionPatterns ==
    {<<UpFrame, UpFrame>>,
     <<UpFrame, DownFrame>>,
     <<PushupFrame, PushupFrame>>,
     <<WristDownFrame, WristDownFrame>>,
     <<NoPose, NoPose>>}

SessionBlocks ==
    {<<>>} \cup {Block(p, n) : p \in SessionPatterns, n \in 1..MaxSessionBlockLen}

SessionInputs ==
    {b1 \o b2 \o b3 : b1 \in SessionBlocks, b2 \in SessionBlocks, b3 \in SessionBlocks}

\* time.time() - start_time, in hundredths of a second.
ProcessingTimes == {120}

InitSession ==
    /\ pc = "session"
    /\ poses \in SessionInputs
    /\ \E dt \in {0, FrameDt} :
          /\ total_duration = Len(poses) * dt
          /\ timestamps = Timestamps(Len(poses), dt)
    /\ landmarks = NoPose
    /\ labels = <<>>
    /\ segments = <<>>
    /\ exercise_type = "unknown"
    /\ i = 0
    /\ rep_count = 0
    /\ in_rep = FALSE
    /\ fatigue = [fatigue_score |-> 0, indicators |-> <<>>]
    /\ report = [error |-> "not run"]
    /\ stdout = <<>>
    /\ returncode = 0
    /\ response = [status |-> 0]
    /\ workers = <<>>

\* main up to the return of analyze_workout_session.
AnalyzeSession ==
    /\ pc = "session"
    /\ report' = analyze_workout_session(poses, total_duration)
    /\ segments' = IF "error" \in DOMAIN report' THEN <<>>
                   ELSE segment_workout_into_exercises(poses, timestamps)
    /\ stdout' = ProgressLines(poses)
    /\ pc' = "analyzed"
    /\ UNCHANGED <<landmarks, labels, poses, timestamps, exercise_type, i,
                   rep_count, in_rep, fatigue, total_duration, returncode,
                   response, workers>>

\* main: the result is printed with its processing time and the process
\* ends with status 0.
MainPrint ==
    /\ pc = "analyzed"
    /\ \E t \in ProcessingTimes :
          stdout' = Append(stdout, JsonDump(WithProcessingTime(report, t)))
    /\ returncode' = 0
    /\ pc' = "exited"
    /\ UNCHANGED <<landmarks, labels, poses, timestamps, segments,
                   exercise_type, i, rep_count, in_rep, fatigue,
                   total_duration, report, response, workers>>

\* analyze_batch after subprocess.run returned.
AnalyzeBatch ==
    /\ pc = "exited"
    /\ response' = analyze_batch(returncode, stdout)
    /\ pc' = "responded"
    /\ UNCHANGED <<landmarks, labels, poses, timestamps, segments,
                   exercise_type, i, rep_count, in_rep, fatigue,
                   total_duration, report, stdout, returncode, workers>>

\* analyze_batch: subprocess.TimeoutExpired while the analyzer still runs.
AnalyzeBatchTimeout ==
    /\ pc \in {"session", "analyzed"}
    /\ response' = [status |-> 408, detail |-> "Analysis timeout"]
    /\ pc' = "responded"
    /\ UNCHANGED <<landmarks, labels, poses, timestamps, segments,
                   exercise_type, i, rep_count, in_rep, fatigue,
                   total_duration, report, stdout, returncode, workers>>

NextSession == AnalyzeSession \/ MainPrint \/ AnalyzeBatch \/ AnalyzeBatchTimeout

SpecSession == InitSession /\ [][NextSession]_vars

-----------------------------------------------------------------------------
(* Properties of the session report *)

IsReport(r) == DOMAIN r = {"session_summary", "detailed_analysis", "video_stats"}

IsError(r) == DOMAIN r = {"error"}

Analyzed == pc \in {"analyzed", "exited"}

\* No run of the input is a segment the session analyses.
NoSegmentQualifies ==
    \A k \in DOMAIN segment_workout_into_exercises(poses, timestamps) :
        segment_workout_into_exercises(poses, timestamps)[k].exercise = "unknown"

\* A well-formed report with no analysed segment and every total zero.
ZeroReport(r) ==
    /\ IsReport(r)
    /\ r.detailed_analysis = <<>>
    /\ r.session_summary.total_exercise_time = 0
    /\ r.session_summary.total_reps = 0
    /\ r.session_summary.exercises_performed = <<>>
    /\ DOMAIN r.session_summary.exercise_breakdown = {}

EntriesOf(r, l) == {k \in DOMAIN r.detailed_analysis : r.detailed_analysis[k].exercise = l}

Durations(r) == [k \in DOMAIN r.detailed_analysis |-> r.detailed_analysis[k].duration]

Reps(r) == [k \in DOMAIN r.detailed_analysis |-> r.detailed_analysis[k].reps_counted]

\* C12: in every report, total_exercise_time is the sum of the durations of
\* the entries of detailed_analysis, rest_time is total_duration minus
\* total_exercise_time, exercise_breakdown[label] is the sum of reps_counted
\* over the entries of that label, and total_reps is the sum of all
\* reps_counted, which is the sum of the values of exercise_breakdown.
C12_TotalsAreSums ==
    (Analyzed /\ IsReport(report)) =>
        LET s == report.session_summary
        IN /\ s.total_exercise_time
                = SumOver(DOMAIN report.detailed_analysis, Durations(report))
           /\ s.rest_time = s.total_duration - s.total_exercise_time
           /\ DOMAIN s.exercise_breakdown
                = {report.detailed_analysis[k].exercise : k \in DOMAIN report.detailed_analysis}
           /\ \A l \in DOMAIN s.exercise_breakdown :
                s.exercise_breakdown[l] = SumOver(EntriesOf(report, l), Reps(report))
           /\ s.total_reps = SumOver(DOMAIN report.detailed_analysis, Reps(report))
           /\ s.total_reps = SumOver(DOMAIN s.exercise_breakdown, s.exercise_breakdown)

\* two squat segments with repetitions each, apart in time.
C12_Witness ==
    /\ Analyzed
    /\ IsReport(report)
    /\ Len(report.detailed_analysis) = 2
    /\ \A k \in 1..2 : /\ report.detailed_analysis[k].exercise = "squat"
                       /\ report.detailed_analysis[k].reps_counted > 0
                       /\ report.detailed_analysis[k].duration > 0
    /\ report.session_summary.exercise_breakdown["squat"] > 3
    /\ report.session_summary.rest_time > 0

\* The segments of the session that carry a label other than 'unknown'.
KnownSegments == {k \in DOMAIN segments : segments[k].exercise # "unknown"}

\* C13: no entry of detailed_analysis and no key of exercise_breakdown or
\* exercises_performed carries 'unknown', and the frames labelled 'unknown'
\* add nothing to total_reps or total_exercise_time: both are the sums over
\* the segments of the other labels.
C13_UnknownLeftOut ==
    (Analyzed /\ IsReport(report)) =>
        LET s == report.session_summary
        IN /\ \A k \in DOMAIN report.detailed_analysis :
                report.detailed_analysis[k].exercise # "unknown"
           /\ "unknown" \notin DOMAIN s.exercise_breakdown
           /\ \A k \in DOMAIN s.exercises_performed :
                s.exercises_performed[k] # "unknown"
           /\ Len(report.detailed_analysis) = Cardinality(KnownSegments)
           /\ s.total_exercise_time
                = SumOver(KnownSegments, [k \in DOMAIN segments |-> segments[k].duration])
           /\ s.total_reps
                = SumOver(KnownSegments,
                          [k \in DOMAIN segments |->
                             count_reps_in_sequence(segments[k].poses,
                                                    segments[k].exercise)])

\* a session with a segment of absent frames next to a squat segment.
C13_Witness ==
    /\ Analyzed
    /\ IsReport(report)
    /\ \E k \in DOMAIN segments : /\ segments[k].exercise = "unknown"
                                  /\ segments[k].duration > 0
    /\ report.session_summary.total_reps > 0
    /\ report.session_summary.total_exercise_time > 0

-----------------------------------------------------------------------------
(* Specification of a direct call of segment_workout_into_exercises: the *)
(* caller supplies the timestamps                                         *)

\* Timestamps as a caller may pass them: advancing, receding, or jumping
\* back and forth.
CallerTimestamps(n) ==
    {[k \in 1..n |-> (k - 1) * FrameDt],
     [k \in 1..n |-> (n - k) * FrameDt],
     [k \in 1..n |-> IF k % 2 = 1 THEN FrameDt ELSE 0]}

InitDirect ==
    /\ pc = "segment"
    /\ \E rs \in RunSeqs : Len(rs) <= 2 /\ poses = Expand(rs)
    /\ timestamps \in CallerTimestamps(Len(poses))
    /\ landmarks = NoPose
    /\ labels = <<>>
    /\ segments = <<>>
    /\ exercise_type = "unknown"
    /\ i = 0
    /\ rep_count = 0
    /\ in_rep = FALSE
    /\ fatigue = [fatigue_score |-> 0, indicators |-> <<>>]
    /\ SessIdle

NextDirect == Segment

SpecDirect == InitDirect /\ [][NextDirect]_vars

\* C14: given timestamps that are not monotonically non-decreasing, the
\* call fails with InvalidSequenceError instead of returning: it never
\* completes, and no segment, so none of negative duration, is produced.
C14_RejectsUnorderedTimestamps ==
    ~NonDecreasing(timestamps) =>
        /\ pc # "done"
        /\ segments = <<>>
        /\ \A k \in DOMAIN segments : segments[k].duration >= 0

\* The timestamps of the frames of a returned segment.
TimestampsOf(S) == SubSeq(timestamps, S.segment_start + 1, S.segment_start + S.frame_count)

\* C15: running segment_workout_into_exercises again on the poses of a
\* returned segment, with the timestamps of its frames, returns exactly one
\* segment, with the same label, start_time, end_time, duration, poses and
\* frame_count.
C15_Idempotent ==
    pc = "done" =>
        \A k \in DOMAIN segments :
            LET S == segments[k]
                again == segment_workout_into_exercises(S.poses, TimestampsOf(S))
            IN /\ Len(again) = 1
               /\ again[1].exercise = S.exercise
               /\ again[1].start_time = S.start_time
               /\ again[1].end_time = S.end_time
               /\ again[1].duration = S.duration
               /\ again[1].poses = S.poses
               /\ again[1].frame_count = S.frame_count

\* a segment closed by a change of label was returned, with frames after it.
C15_Witness ==
    /\ pc = "done"
    /\ Len(segments) >= 1
    /\ segments[1].exercise = "squat"
    /\ segments[1].duration > 0
    /\ segments[1].segment_start + segments[1].frame_count < Len(poses)

-----------------------------------------------------------------------------
(* Properties of the fatigue indicators *)

Degraded(ps, type) ==
    LessByMargin(calculate_form_consistency(late_poses(ps), type),
                 calculate_form_consistency(early_poses(ps), type), 15)

Unstable(ps) ==
    /\ Len(late_poses(ps)) > 5
    /\ LessByMargin(calculate_pose_stability(late_poses(ps)),
                    calculate_pose_stability(early_poses(ps)), 10)

Indicators(r) == {r.indicators[k] : k \in DOMAIN r.indicators}

\* 30 frames: the shoulder width is constant in the first two thirds and
\* swings between 0.20 and 0.60 in the last third.
SteadyThenSwinging ==
    Block(<<FatigueFrame(20, 50), FatigueFrame(20, 50)>>, 20)
      \o Block(<<FatigueFrame(20, 50), FatigueFrame(60, 50)>>, 10)

\* C16: on 10 frames or more, 'Form degradation detected' is reported
\* exactly when the late consistency is below the early consistency minus
\* 0.15, 'Increased movement instability' exactly when the late window has
\* more than 5 frames and the late stability is below the early stability
\* minus 0.1, and the score is 0.3 for the first plus 0.2 for the second;
\* a 30-frame sequence whose shoulder width is constant in the first third
\* and swings in the last third gets a non-zero score and the degradation
\* indicator.
C16_IndicatorsAndScore ==
    (pc = "fatigue_done" /\ Len(poses) >= 10) =>
        /\ "Form degradation detected" \in Indicators(fatigue)
             <=> Degraded(poses, exercise_type)
        /\ "Increased movement instability" \in Indicators(fatigue)
             <=> Unstable(poses)
        /\ fatigue.fatigue_score
             = (IF Degraded(poses, exercise_type) THEN 30 ELSE 0)
               + (IF Unstable(poses) THEN 20 ELSE 0)
        /\ LET r == detect_fatigue_indicators(SteadyThenSwinging, "squat")
           IN /\ r.fatigue_score > 0
              /\ "Form degradation detected" \in Indicators(r)

\* a sequence whose late window is too short for the stability comparison,
\* although the nose moves more at the end, and one with both indicators.
C16_Witness ==
    /\ pc = "fatigue_done"
    /\ Len(poses) >= 10
    /\ \/ /\ Len(late_poses(poses)) <= 5
          /\ LessByMargin(calculate_pose_stability(late_poses(poses)),
                          calculate_pose_stability(early_poses(poses)), 10)
          /\ fatigue.fatigue_score = 30
       \/ fatigue.fatigue_score = 50

\* C17: every result of detect_fatigue_indicators, the one for too few
\* frames included, carries the four fields: the score, the indicators, the
\* early consistency and the late consistency.
C17_AllFourFields ==
    pc = "fatigue_done" =>
        DOMAIN fatigue = {"fatigue_score", "indicators",
                          "early_consistency", "late_consistency"}

-----------------------------------------------------------------------------
(* Specification of the per-segment analyses run in any order: one worker *)
(* per retained segment, each a call of count_reps_in_sequence followed   *)
(* by a call of detect_fatigue_indicators, their steps interleaved        *)

\* Blocks of squat frames that start standing or deep, of pushup frames and
\* of absent frames, with or without an absent frame between two blocks.
ParallelPatterns ==
    {<<UpFrame, DownFrame>>, <<DownFrame, UpFrame>>,
     <<PushupFrame, PushupFrame>>, <<NoPose, NoPose>>}

ParallelBlocks ==
    {Block(p, n) : p \in ParallelPatterns, n \in (MaxRunLen - 1)..(MaxRunLen + 1)}

ParallelInputs ==
    {b1 \o gap \o b2 : b1 \in ParallelBlocks, b2 \in ParallelBlocks,
                       gap \in {<<>>, <<NoPose>>}}

\* Variant in which a call starts from the rest/active state of the call
\* on the segment before.
RepLocalsCarried(ws, w) ==
    [rep_count |-> 0, in_rep |-> IF w > 1 THEN ws[w - 1].in_rep ELSE FALSE]

\* "rep_count = 0; in_rep = False": the locals of a new call, whatever the
\* other calls ws hold.
RepLocals(ws, w) == [rep_count |-> 0, in_rep |-> FALSE]

\* The running totals of the session before any segment is counted.
NoTotals ==
    [total_reps |-> 0,
     counts |-> [keys |-> <<>>, breakdown |-> <<>>, total_exercise_time |-> 0]]

InitParallel ==
    /\ pc = "parallel"
    /\ poses \in ParallelInputs
    /\ timestamps = Timestamps(Len(poses), FrameDt)
    /\ total_duration = Len(poses) * FrameDt
    /\ landmarks = NoPose
    /\ labels = <<>>
    /\ segments = <<>>
    /\ exercise_type = "unknown"
    /\ i = 0
    /\ rep_count = 0
    /\ in_rep = FALSE
    /\ fatigue = [fatigue_score |-> 0, indicators |-> <<>>]
    /\ report = NoTotals
    /\ stdout = <<>>
    /\ returncode = 0
    /\ response = [status |-> 0]
    /\ workers = <<>>

\* The segmentation, then one worker per segment the loop does not skip.
StartWorkers ==
    /\ pc = "parallel"
    /\ segments' = SelectSeq(segment_workout_into_exercises(poses, timestamps),
                             KeepForAnalysis)
    /\ workers' = [w \in DOMAIN segments' |->
                     [at |-> "enter", k |-> 0, rep_count |-> 0, in_rep |-> FALSE,
                      fatigue |-> [fatigue_score |-> 0, indicators |-> <<>>]]]
    /\ pc' = "workers"
    /\ UNCHANGED <<landmarks, labels, poses, timestamps, exercise_type, i,
                   rep_count, in_rep, fatigue, total_duration, report, stdout,
                   returncode, response>>

UnchangedByWorkers ==
    UNCHANGED <<pc, landmarks, labels, poses, timestamps, segments,
                exercise_type, i, rep_count, in_rep, fatigue, total_duration,
                stdout, returncode, response>>

\* count_reps_in_sequence is entered for the segment of worker w.
WorkerEnter ==
    \E w \in DOMAIN workers :
        /\ pc = "workers"
        /\ workers[w].at = "enter"
        /\ workers' =
             [workers EXCEPT ![w] =
                IF RepEarlyExit(segments[w].poses, segments[w].exercise)
                THEN [@ EXCEPT !.at = "fatigue", !.rep_count = 0]
                ELSE LET st == RepLocals(workers, w)
                     IN [@ EXCEPT !.at = "scan", !.k = 0,
                                  !.rep_count = st.rep_count, !.in_rep = st.in_rep]]
        /\ UNCHANGED report
        /\ UnchangedByWorkers

\* one iteration of the loop over the poses of the segment of worker w.
WorkerFrame ==
    \E w \in DOMAIN workers :
        /\ pc = "workers"
        /\ workers[w].at = "scan"
        /\ workers[w].k < Len(segments[w].poses)
        /\ LET st == RepStep([rep_count |-> workers[w].rep_count,
                              in_rep |-> workers[w].in_rep],
                             segments[w].poses[workers[w].k + 1],
                             segments[w].exercise)
           IN workers' = [workers EXCEPT ![w].k = @ + 1,
                                         ![w].rep_count = st.rep_count,
                                         ![w].in_rep = st.in_rep]
        /\ UNCHANGED report
        /\ UnchangedByWorkers

\* return rep_count
WorkerReturn ==
    \E w \in DOMAIN workers :
        /\ pc = "workers"
        /\ workers[w].at = "scan"
        /\ workers[w].k = Len(segments[w].poses)
        /\ workers' = [workers EXCEPT ![w].at = "fatigue"]
        /\ UNCHANGED report
        /\ UnchangedByWorkers

\* detect_fatigue_indicators on the segment of worker w.
WorkerFatigue ==
    \E w \in DOMAIN workers :
        /\ pc = "workers"
        /\ workers[w].at = "fatigue"
        /\ workers' =
             [workers EXCEPT ![w].at = "collect",
                             ![w].fatigue =
                                detect_fatigue_indicators(segments[w].poses,
                                                          segments[w].exercise)]
        /\ UNCHANGED report
        /\ UnchangedByWorkers

\* The result of worker w is added to the totals of the session.
WorkerCollect ==
    \E w \in DOMAIN workers :
        /\ pc = "workers"
        /\ workers[w].at = "collect"
        /\ report' =
             [total_reps |-> report.total_reps + workers[w].rep_count,
              counts |-> Tally(report.counts,
                               [exercise |-> segments[w].exercise,
                                reps_counted |-> workers[w].rep_count,
                                duration |-> segments[w].duration])]
        /\ workers' = [workers EXCEPT ![w].at = "done"]
        /\ UnchangedByWorkers

NextParallel ==
    StartWorkers \/ WorkerEnter \/ WorkerFrame \/ WorkerReturn
      \/ WorkerFatigue \/ WorkerCollect

SpecParallel == InitParallel /\ [][NextParallel]_vars

\* The totals of the loops of analyze_workout_session, in the order of the
\* segments.
SequentialTotals ==
    LET done == AnalyzeSegments([segment_analysis |-> <<>>, total_reps |-> 0], segments)
    IN [total_reps |-> done.total_reps,
        counts |-> Summarize(NoTotals.counts, done.segment_analysis)]

\* C18: whatever the order and interleaving of the per-segment analyses,
\* each segment gets the reps and the fatigue result of
\* count_reps_in_sequence and detect_fatigue_indicators run on it alone,
\* the session totals are those of the sequential order, and every rep
\* counter starts at rest.
C18_OrderIndependent ==
    pc = "workers" =>
        /\ \A w \in DOMAIN workers :
             /\ workers[w].at \in {"fatigue", "collect", "done"} =>
                  workers[w].rep_count
                    = count_reps_in_sequence(segments[w].poses, segments[w].exercise)
             /\ workers[w].at \in {"collect", "done"} =>
                  workers[w].fatigue
                    = detect_fatigue_indicators(segments[w].poses, segments[w].exercise)
             /\ (workers[w].at = "scan" /\ workers[w].k = 0) => ~workers[w].in_rep
        /\ (\A w \in DOMAIN workers : workers[w].at = "done") =>
             /\ report.total_reps = SequentialTotals.total_reps
             /\ report.counts.breakdown = SequentialTotals.counts.breakdown
             /\ report.counts.total_exercise_time
                  = SequentialTotals.counts.total_exercise_time

\* the second segment was collected before the first, whose counter is
\* still active, and both have repetitions.
C18_Witness ==
    /\ pc = "workers"
    /\ Len(workers) = 2
    /\ workers[2].at = "done"
    /\ workers[2].rep_count > 0
    /\ workers[1].at = "scan"
    /\ workers[1].in_rep
    /\ workers[1].rep_count > 0

-----------------------------------------------------------------------------
(* Properties of the HTTP adapter *)

\* C19: whenever the batch analyzer process exits with status 0 after
\* producing a session report, /analyze/batch answers with success = True
\* and a result equal to that report.
C19_RelaysReportUnchanged ==
    (pc = "responded" /\ response.status # 408 /\ returncode = 0 /\ IsReport(report)) =>
        /\ response.status = 200
        /\ response.success
        /\ response.result = report

-----------------------------------------------------------------------------
(* Frames the rep counter cannot evaluate *)

\* The frames of ps the detector of the label can evaluate, in order.
Usable(ps, type) == SelectSeq(ps, LAMBDA pose : ValidFor(pose, type))

\* C20: for squat and pushup, absent frames and frames without a landmark
\* the detector reads neither advance nor reset the rest/active state: after
\* any number of frames the count and the state are those of the evaluable
\* frames alone, so inserting or deleting such frames anywhere leaves the
\* returned count unchanged.
C20_UnusableFramesIgnored ==
    (pc \in {"scan", "reps_done"} /\ exercise_type \in {"squat", "pushup"}) =>
        /\ [rep_count |-> rep_count, in_rep |-> in_rep]
             = RepScan([rep_count |-> 0, in_rep |-> FALSE], 0,
                       Usable(SubSeq(poses, 1, i), exercise_type), exercise_type)
        /\ pc = "reps_done" =>
             rep_count = count_reps_in_sequence(Usable(poses, exercise_type),
                                                exercise_type)

\* a squat counted across an absent frame and a frame without the left hip.
C20_Witness ==
    /\ pc = "reps_done"
    /\ exercise_type = "squat"
    /\ poses = <<DownFrame, NoPose, PartialFrame, UpFrame>>
    /\ rep_count = 1

-----------------------------------------------------------------------------
(* Hysteresis of the rep counter *)

\* A frame inside the dead band of the detector of the label.
InBand(pose, type) ==
    /\ ValidFor(pose, type)
    /\ CASE type = "squat" ->
              LET hip_y2 == Y(pose, "left_hip") + Y(pose, "right_hip")
                  knee_y2 == Y(pose, "left_knee") + Y(pose, "right_knee")
              IN knee_y2 - 30 <= hip_y2 /\ hip_y2 <= knee_y2 - 10
         [] type = "pushup" ->
              LET d == Abs(Y(pose, "left_shoulder") - Y(pose, "left_wrist"))
              IN 10 <= d /\ d <= 20
         [] OTHER -> FALSE

\* A frame beyond the enter threshold of the detector of the label.
Entering(pose, type) ==
    CASE type = "squat" -> SquatDeep(pose)
      [] type = "pushup" -> PushupBottom(pose)
      [] OTHER -> FALSE

WithoutBand(ps, type) == SelectSeq(ps, LAMBDA pose : ~InBand(pose, type))

\* The locals of the counter after the first k frames of the sequence.
StateAfter(k) ==
    RepScan([rep_count |-> 0, in_rep |-> FALSE], 0, SubSeq(poses, 1, k), exercise_type)

\* The frames at which a rep was counted.
LeavingFrames ==
    {k \in 1..Len(poses) : StateAfter(k).rep_count = StateAfter(k - 1).rep_count + 1}

\* C21: a frame inside the dead band never changes the rest/active state,
\* so the count is that of the sequence without its dead-band frames, and
\* between two frames at which a rep is counted there is a frame beyond the
\* enter threshold.
C21_Hysteresis ==
    (pc = "reps_done" /\ exercise_type \in {"squat", "pushup"}) =>
        /\ \A k \in 1..Len(poses) :
             InBand(poses[k], exercise_type) => StateAfter(k) = StateAfter(k - 1)
        /\ rep_count = count_reps_in_sequence(WithoutBand(poses, exercise_type),
                                              exercise_type)
        /\ \A j \in LeavingFrames, k \in LeavingFrames :
             j < k => \E m \in (j + 1)..(k - 1) : Entering(poses[m], exercise_type)

\* two squats counted with dead-band frames in the sequence.
C21_Witness ==
    /\ pc = "reps_done"
    /\ exercise_type = "squat"
    /\ \E k \in 1..Len(poses) : InBand(poses[k], "squat")
    /\ Cardinality(LeavingFrames) = 2
    /\ rep_count = 2

-----------------------------------------------------------------------------
(* Time bounds and extent of the returned segments *)

\* C22: for every returned segment, start_time is the timestamp of the
\* first frame of its run, end_time the timestamp of the last frame of its
\* run, not of the frame that changed the label, and duration is end_time
\* minus start_time; the segment closed at the end of the sequence included.
C22_TimesOfFirstAndLastFrame ==
    pc = "done" =>
        \A s \in Returned :
            /\ s.poses = SubSeq(poses, s.segment_start + 1,
                                s.segment_start + s.frame_count)
            /\ s.start_time = timestamps[s.segment_start + 1]
            /\ s.end_time = timestamps[s.segment_start + s.frame_count]
            /\ s.duration = s.end_time - s.start_time

\* a segment closed by a change of label and one closed by the end of the
\* sequence, with advancing timestamps.
C22_Witness ==
    /\ pc = "done"
    /\ Len(segments) = 2
    /\ segments[1].duration > 0
    /\ segments[2].start_time > segments[1].end_time
    /\ segments[2].segment_start + segments[2].frame_count = Len(poses)

\* C23: every returned segment is a maximal contiguous run: all its frames
\* classify to its label, and the frame before its first frame and the
\* frame after its last frame, when they exist, classify to another label.
C23_MaximalRun ==
    pc = "done" =>
        \A s \in Returned :
            LET a == s.segment_start + 1
                b == s.segment_start + s.frame_count
            IN /\ 1 <= a /\ a <= b /\ b <= Len(poses)
               /\ s.poses = SubSeq(poses, a, b)
               /\ \A k \in a..b : LabelAt(k) = s.exercise
               /\ a > 1 => LabelAt(a - 1) # s.exercise
               /\ b < Len(poses) => LabelAt(b + 1) # s.exercise

\* a returned segment with frames of other labels on both sides.
C23_Witness ==
    /\ pc = "done"
    /\ \E s \in Returned :
          /\ s.segment_start > 0
          /\ s.segment_start + s.frame_count < Len(poses)
          /\ s.exercise = "squat"

-----------------------------------------------------------------------------
(* Windows of the fatigue estimator *)

\* C24: on 10 frames or more the early window is the first floor(n/3)
\* frames and the late window is the last floor(n/3) frames, of equal
\* length, for every n.
C24_EqualThirds ==
    (pc = "fatigue_done" /\ Len(poses) >= 10) =>
        LET n == Len(poses)
        IN /\ early_poses(poses) = SubSeq(poses, 1, n \div 3)
           /\ late_poses(poses) = SubSeq(poses, n - (n \div 3) + 1, n)
           /\ Len(early_poses(poses)) = Len(late_poses(poses))

-----------------------------------------------------------------------------
(* Absent frames in the form consistency *)

SameRatio(a, b) == a.num * b.den = b.num * a.den

Present(ps) == SelectSeq(ps, LAMBDA pose : pose # NoPose)

\* C27: the consistency of a window equals the consistency of the window
\* with its absent frames removed: the pairs are taken between consecutive
\* valid frames, so an absent frame between two valid frames does not
\* remove the contribution of that pair.
C27_AbsentFramesSkipped ==
    pc = "fatigue_done" =>
        \A W \in {poses, early_poses(poses), late_poses(poses)} :
            SameRatio(calculate_form_consistency(W, exercise_type),
                      calculate_form_consistency(Present(W), exercise_type))

-----------------------------------------------------------------------------
(* The squat and plank rules of the classifiers *)

WristsPresent(f) == Has(f, "left_wrist") /\ Has(f, "right_wrist")

\* The squat rule as stated: a squat candidate for the margins of the
\* classifier (doubled, as the means are) whose wrists, if present, average
\* above the hips.
StatedSquatRule(f, hip_margin2, knee_margin2) ==
    /\ HipY2(f) > ShoulderY2(f) + hip_margin2
    /\ KneeY2(f) > HipY2(f) - knee_margin2
    /\ WristsPresent(f) => Y(f, "left_wrist") + Y(f, "right_wrist") < HipY2(f)

\* C25: in every classifier a pose with the six required landmarks is
\* labelled squat exactly when it is a squat candidate and its wrists, if
\* present, average above hip height: a candidate with wrists below the
\* hips is not a squat, a candidate without wrists is.
C25_SquatRuleWithWrists ==
    (pc = "classified" /\ HasRequired(landmarks)) =>
        /\ labels.batch = "squat" <=> StatedSquatRule(landmarks, 30, 20)
        /\ labels.detailed = "squat" <=> StatedSquatRule(landmarks, 20, 10)
        /\ labels.realtime = "squat" <=> StatedSquatRule(landmarks, 24, 16)

\* Shoulders, hips and knees within 0.15 of each other.
InPlankBand(f) ==
    /\ Abs(ShoulderY2(f) - HipY2(f)) < 30
    /\ Abs(HipY2(f) - KneeY2(f)) < 30

\* C26: in the batch and the detailed classifier a pose with the six
\* required landmarks that matches neither the squat nor the pushup rule and
\* whose shoulders, hips and knees are within the band is labelled plank,
\* and plank is returned only for poses within the band.
C26_PlankBand ==
    (pc = "classified" /\ HasRequired(landmarks)) =>
        /\ (~BatchSquatRule(landmarks) /\ ~BatchPushupRule(landmarks)
              /\ InPlankBand(landmarks)) => labels.batch = "plank"
        /\ labels.batch = "plank" => InPlankBand(landmarks)
        /\ (~DetailedSquatRule(landmarks) /\ ~DetailedPushupRule(landmarks)
              /\ InPlankBand(landmarks)) => labels.detailed = "plank"
        /\ labels.detailed = "plank" => InPlankBand(landmarks)

-----------------------------------------------------------------------------
(* Specification of sessions of pushup frames: the frames of a video, then *)
(* analyze_workout_session                                                 *)

\* 'pushup' frames: level shoulders with the left wrist 0.14 below them, the
\* left shoulder 0.10 above the right one with the wrist 0.19 below it, and
\* the left shoulder 0.30 above the right one with the wrist 0.25 below it.
PushupWristLowFrame == Frame(50, 50, 50, 50, 64, 64, {})
PushupTiltFrame == Frame(40, 50, 50, 50, 59, 59, {})
PushupSteepFrame == Frame(30, 60, 50, 50, 55, 55, {})

PushupPatterns ==
    {<<PushupFrame, PushupFrame>>,
     <<PushupFrame, PushupWristLowFrame>>,
     <<PushupFrame, PushupTiltFrame>>,
     <<PushupFrame, PushupSteepFrame>>,
     <<NoPose, NoPose>>}

PushupBlocks ==
    {Block(p, n) : p \in PushupPatterns, n \in (MaxRunLen - 1)..(MaxRunLen + 1)}

InitPushups ==
    /\ pc = "session"
    /\ \E b1 \in PushupBlocks, b2 \in PushupBlocks, gap \in {<<>>, <<NoPose>>} :
          poses = b1 \o gap \o b2
    /\ total_duration = Len(poses) * FrameDt
    /\ timestamps = Timestamps(Len(poses), FrameDt)
    /\ landmarks = NoPose
    /\ labels = <<>>
    /\ segments = <<>>
    /\ exercise_type = "unknown"
    /\ i = 0
    /\ rep_count = 0
    /\ in_rep = FALSE
    /\ fatigue = [fatigue_score |-> 0, indicators |-> <<>>]
    /\ report = [error |-> "not run"]
    /\ stdout = <<>>
    /\ returncode = 0
    /\ response = [status |-> 0]
    /\ workers = <<>>

NextPushups == AnalyzeSession

SpecPushups == InitPushups /\ [][NextPushups]_vars

\* The segments behind the entries of detailed_analysis, in order.
AnalysedSegments == SelectSeq(segments, KeepForAnalysis)

\* The shoulders of every frame of the segment are within 0.1 of each other.
LevelShoulders(segment) ==
    \A k \in DOMAIN segment.poses :
        Abs(Y(segment.poses[k], "left_shoulder")
              - Y(segment.poses[k], "right_shoulder")) <= 10

\* C28: in the report of a session, every segment labelled pushup whose
\* left and right shoulder heights differ by at most 0.1 in every frame has
\* reps_counted = 0.
C28_LevelPushupsCountZero ==
    (Analyzed /\ IsReport(report)) =>
        /\ Len(report.detailed_analysis) = Len(AnalysedSegments)
        /\ \A k \in DOMAIN report.detailed_analysis :
             (report.detailed_analysis[k].exercise = "pushup"
                /\ LevelShoulders(AnalysedSegments[k]))
               => report.detailed_analysis[k].reps_counted = 0

\* a pushup segment whose shoulders are 0.10 apart in some frames and whose
\* wrist stays inside the dead band of the counter.
C28_Witness ==
    /\ Analyzed
    /\ IsReport(report)
    /\ \E k \in DOMAIN report.detailed_analysis :
          /\ report.detailed_analysis[k].exercise = "pushup"
          /\ LevelShoulders(AnalysedSegments[k])
          /\ \E m \in DOMAIN AnalysedSegments[k].poses :
                AnalysedSegments[k].poses[m] = PushupTiltFrame
          /\ report.detailed_analysis[k].reps_counted = 0

-----------------------------------------------------------------------------
(* Bound of the rep count *)

\* C29: for every sequence and label the returned count is at most
\* floor(v / 2), v the number of present frames that carry the landmarks
\* the detector of the label reads.
C29_AtMostHalfTheValidFrames ==
    pc = "reps_done" => 2 * rep_count <= ValidCount(poses, exercise_type)

\* the bound is met: two reps from four valid frames.
C29_Witness ==
    /\ pc = "reps_done"
    /\ exercise_type = "pushup"
    /\ ValidCount(poses, "pushup") = 4
    /\ Len(poses) = 5
    /\ rep_count = 2

-----------------------------------------------------------------------------
(* Exercise time and rest time of a session *)

\* C30: in every report of a session whose total_duration is not negative,
\* 0 <= total_exercise_time <= total_duration, and so rest_time >= 0.
C30_ExerciseTimeWithinDuration ==
    (Analyzed /\ IsReport(report) /\ total_duration >= 0) =>
        /\ 0 <= report.session_summary.total_exercise_time
        /\ report.session_summary.total_exercise_time
             <= report.session_summary.total_duration
        /\ report.session_summary.rest_time >= 0

\* a session filled by three analysed segments: the exercise time is the
\* duration less the three frame intervals the segments do not cover.
C30_Witness ==
    /\ Analyzed
    /\ IsReport(report)
    /\ Len(report.detailed_analysis) = 3
    /\ report.session_summary.total_duration = 21 * FrameDt
    /\ report.session_summary.total_exercise_time = 18 * FrameDt
    /\ report.session_summary.rest_time = 3 * FrameDt


=============================================================================
